---- MODULE Spec2Model ----
(***************************************************************************)
(* The tool-using agent loop of src/Adk.py: execute_web_search (the tool   *)
(* executor for the one registered tool) and run_adk_agent (the loop).     *)
(*                                                                         *)
(* Python strings are sequences of tokens: "" is << >>, an f-string or a   *)
(* join is a concatenation, and "begins with" is a prefix test.            *)
(* The collaborators (model service, search backend, logging) are the      *)
(* environment: each call returns one of a small set of outcomes or raises.*)
(***************************************************************************)
EXTENDS Naturals, Sequences, FiniteSets

\* ---------------------------------------------------------------- bounds
\* content parts of the first candidate of a model reply
MaxParts == 2
\* entries of the backend's RelatedTopics list (the code reads the first 3)
MaxTopics == 4

\* ---------------------------------------------------------------- strings
Empty == << >>

Truthy(s) == s # Empty

IsPrefix(p, s) == Len(p) <= Len(s) /\ SubSeq(s, 1, Len(p)) = p

RECURSIVE Join(_, _)
\* sep.join(items) over a sequence of strings
Join(sep, items) ==
    IF Len(items) = 0 THEN Empty
    ELSE IF Len(items) = 1 THEN items[1]
    ELSE items[1] \o sep \o Join(sep, Tail(items))

\* ---------------------------------------------------------------- tool executor
SearchFailedPrefix == <<"Search failed: ">>

\* an entry of data["RelatedTopics"]: a dict or not, with a "Text" key or not
Topic(isDict, hasText, text) == [is_dict |-> isDict, has_text |-> hasText, text |-> text]

TopicKinds ==
    { Topic(FALSE, FALSE, Empty), Topic(TRUE, FALSE, Empty),
      Topic(TRUE, TRUE, <<"x">>), Topic(TRUE, TRUE, <<"y">>) }

RECURSIVE TopicTexts(_)
\* the inner loop of lines 77-80 over an already sliced list
TopicTexts(ts) ==
    IF Len(ts) = 0 THEN << >>
    ELSE IF Head(ts).is_dict /\ Head(ts).has_text
         THEN <<Head(ts).text>> \o TopicTexts(Tail(ts))
         ELSE TopicTexts(Tail(ts))

\* data["RelatedTopics"][:3]
FirstThree(ts) == SubSeq(ts, 1, IF Len(ts) < 3 THEN Len(ts) ELSE 3)

\* lines 68-82: the list `result` built from the decoded JSON object
ExtractResult(data) ==
    LET summary == IF Truthy(data.AbstractText)
                   THEN << <<"Summary: ">> \o data.AbstractText >> ELSE << >>
        answer  == IF Truthy(data.Answer)
                   THEN << <<"Answer: ">> \o data.Answer >> ELSE << >>
        topics  == IF Len(data.RelatedTopics) > 0
                   THEN TopicTexts(FirstThree(data.RelatedTopics)) ELSE << >>
        related == IF Len(topics) > 0
                   THEN << <<"Related: ">> \o Join(<<", ">>, topics) >> ELSE << >>
    IN  summary \o answer \o related

\* what a call of execute_web_search hands to its caller
Returned(value, searched, fellBack) ==
    [raised |-> FALSE, value |-> value, searched |-> searched, fallback |-> fellBack]

Propagated(searched, fellBack) ==
    [raised |-> TRUE, value |-> Empty, searched |-> searched, fallback |-> fellBack]

\* lines 103-112: the except handler; error_ok is the outcome of the logging
\* call of lines 107-110, which no handler guards
SearchFailure(detail, env, searched, fellBack) ==
    IF env.error_ok
    THEN Returned(SearchFailedPrefix \o detail, searched, fellBack)
    ELSE Propagated(searched, fellBack)

\* lines 96-101: observation of the result, inside the try block
ObserveAndReturn(search_result, env, searched, fellBack) ==
    IF env.observe_ok
    THEN Returned(search_result, searched, fellBack)
    ELSE SearchFailure(<<"logging error">>, env, searched, fellBack)

\* lines 46-112. env holds the outcome of every collaborator call the function
\* can make: trace_ok (lines 50-53), get (lines 64-65), fallback (lines 89-94),
\* observe_ok (lines 97-99), error_ok (lines 107-110).
ExecuteWebSearch(query, env) ==
    IF ~env.trace_ok THEN Propagated(FALSE, FALSE)
    ELSE IF env.get.kind = "raise"
         THEN SearchFailure(env.get.error, env, TRUE, FALSE)
    ELSE IF ~env.get.is_object
         THEN SearchFailure(<<"no attribute get">>, env, TRUE, FALSE)
    ELSE LET result == ExtractResult(env.get.data) IN
         IF Len(result) > 0
         THEN ObserveAndReturn(Join(<<"\n">>, result), env, TRUE, FALSE)
         ELSE IF env.fallback.kind = "raise"
              THEN SearchFailure(env.fallback.error, env, TRUE, TRUE)
              ELSE ObserveAndReturn(env.fallback.text, env, TRUE, TRUE)

\* ---------------------------------------------------------------- collaborator outcomes
JsonObject(abstract, answer, topics) ==
    [AbstractText |-> abstract, Answer |-> answer, RelatedTopics |-> topics]

NoData == JsonObject(Empty, Empty, << >>)

GetRaises(msg) == [kind |-> "raise", error |-> msg, is_object |-> FALSE, data |-> NoData]
GetJson(data) == [kind |-> "json", error |-> Empty, is_object |-> TRUE, data |-> data]
GetNonObject == [kind |-> "json", error |-> Empty, is_object |-> FALSE, data |-> NoData]

TextRaises(msg) == [kind |-> "raise", error |-> msg, text |-> Empty]
TextIs(t) == [kind |-> "text", error |-> Empty, text |-> t]

TopicLists == UNION { [1..n -> TopicKinds] : n \in 0..MaxTopics }

JsonObjects ==
    { JsonObject(a, b, ts) : a \in {Empty, <<"a">>}, b \in {Empty, <<"b">>}, ts \in TopicLists }

GetOutcomes == {GetRaises(<<"timeout">>), GetNonObject} \cup { GetJson(d) : d \in JsonObjects }

FallbackOutcomes == {TextRaises(<<"model error">>), TextIs(Empty), TextIs(<<"g">>)}

SearchEnvs ==
    [trace_ok : BOOLEAN, get : GetOutcomes, fallback : FallbackOutcomes,
     observe_ok : BOOLEAN, error_ok : BOOLEAN]

AllLogged(env) == [env EXCEPT !.trace_ok = TRUE, !.observe_ok = TRUE, !.error_ok = TRUE]

Queries == {Empty, <<"q">>}

\* the outcomes drawn for the tool calls of an agent run
AgentEnvs ==
    [trace_ok : BOOLEAN,
     get : {GetRaises(<<"timeout">>), GetJson(JsonObject(<<"a">>, Empty, << >>))},
     fallback : {TextIs(Empty)}, observe_ok : {TRUE}, error_ok : BOOLEAN]

\* ---------------------------------------------------------------- model replies
\* a reply is its sequence of candidates; a candidate is the sequence of the
\* parts of its content (a candidate without content reads as one with no parts)
TextPart(t) == [kind |-> "text", text |-> t, name |-> "", args |-> {}]

\* args is the set of <<key, value>> pairs of function_call.args
CallPart(name, args) == [kind |-> "function_call", text |-> Empty, name |-> name, args |-> args]

QueryArgs == {<<"query", <<"q">>>>}

Parts ==
    { TextPart(Empty), TextPart(<<"A">>), TextPart(<<"B">>),
      CallPart("web_search", QueryArgs), CallPart("fly_to_moon", {}) }

FirstCandidates == UNION { [1..n -> Parts] : n \in 0..MaxParts }

\* the candidates that may follow the first one
LaterCandidates ==
    { << >>, << <<CallPart("web_search", QueryArgs)>> >>, << <<TextPart(<<"B">>)>> >> }

Replies == {<< >>} \cup { <<c>> \o rest : c \in FirstCandidates, rest \in LaterCandidates }

SendRaises == [kind |-> "raise", reply |-> << >>]
SendReturns(r) == [kind |-> "reply", reply |-> r]
SendOutcomes == {SendRaises} \cup { SendReturns(r) : r \in Replies }

\* ---------------------------------------------------------------- reply accessors
\* lines 154-157: the reply has a first candidate with a first part
HasFirstPart(r) == Len(r) > 0 /\ Len(r[1]) > 0

\* line 161: hasattr(first_part, 'function_call') and first_part.function_call
IsFunctionCall(part) == part.kind = "function_call"

RequestsToolInAnyPart(r) ==
    HasFirstPart(r) /\ \E i \in 1..Len(r[1]) : IsFunctionCall(r[1][i])

\* lines 154-163 as a predicate of the reply alone
RequestsTool(r) == HasFirstPart(r) /\ IsFunctionCall(r[1][1])

\* function_args.get("query", "")
GetQuery(args) ==
    IF \E p \in args : p[1] = "query"
    THEN (CHOOSE p \in args : p[1] = "query")[2]
    ELSE Empty

ToolCallEntryNoArguments(name, args) == [function |-> name, arguments |-> {}]

\* lines 176-179: the entry appended to tool_calls
ToolCallEntry(name, args) == [function |-> name, arguments |-> args]

NoRequest == [function |-> "", arguments |-> {}]

RECURSIVE PartTexts(_)
PartTexts(parts) ==
    IF Len(parts) = 0 THEN << >> ELSE <<Head(parts).text>> \o PartTexts(Tail(parts))

\* line 211: response.text, the model library's quick accessor. It raises for a
\* reply without candidates, with several candidates, without parts, or with a
\* part that is not text; for several text parts it raises or joins them,
\* depending on the library version.
TextOutcomes(r) ==
    IF Len(r) # 1 \/ Len(r[1]) = 0 \/ (\E i \in 1..Len(r[1]) : r[1][i].kind # "text")
    THEN {TextRaises(<<"ValueError">>)}
    ELSE IF Len(r[1]) = 1 THEN {TextIs(r[1][1].text)}
    ELSE {TextRaises(<<"ValueError">>), TextIs(Join(<<"\n">>, PartTexts(r[1])))}

Placeholder == <<"Agent completed processing">>

RECURSIVE FirstNonEmptyTextNoDefault(_)
FirstNonEmptyTextNoDefault(parts) ==
    IF Len(parts) = 0 THEN Empty
    ELSE IF Head(parts).kind = "text" /\ Truthy(Head(parts).text) THEN Head(parts).text
    ELSE FirstNonEmptyTextNoDefault(Tail(parts))

FirstPartTextOnly(parts) ==
    IF Len(parts) > 0 /\ Head(parts).kind = "text" /\ Truthy(Head(parts).text)
    THEN Head(parts).text
    ELSE <<"Agent completed processing">>

RECURSIVE FirstNonEmptyText(_)
\* lines 216-219: the first part with a truthy text, else the placeholder
FirstNonEmptyText(parts) ==
    IF Len(parts) = 0 THEN Placeholder
    ELSE IF Head(parts).kind = "text" /\ Truthy(Head(parts).text) THEN Head(parts).text
    ELSE FirstNonEmptyText(Tail(parts))

\* lines 213-219: the except branch of the final-answer extraction
FallbackAnswer(r) == IF Len(r) > 0 THEN FirstNonEmptyText(r[1]) ELSE Placeholder

\* ---------------------------------------------------------------- the agent run
max_iterations == 5

LoopCondOffByOne(i) == i <= max_iterations

\* line 150
LoopCond(i) == i < max_iterations

NextIterationStuck(i) == i

NextIterationTwice(i) == i + 2

\* line 200
NextIteration(i) == i + 1

HandlerExitContinues == "loop"

\* lines 202-207: the handler clears has_function_call, and the loop breaks
HandlerExit == "extract"

IsRegisteredAny(name) == TRUE

\* lines 182-186: the registry lookup
IsRegistered(name) == name = "web_search"

UnknownTool == <<"Unknown tool">>

Unbound == <<"<unbound>">>

VARIABLES
    pc,             \* position of run_adk_agent
    response,       \* the last reply of the model service
    iteration,
    tool_calls,
    function_call,  \* function_name and function_args of the request in hand
    tool_result,
    final_answer,
    caught,         \* what the handler of line 202 caught
    escaped,        \* what left run_adk_agent as an exception
    events,         \* the external calls made, in order
    asked,          \* per reply received: the request of its first part
    sent,           \* the last function response sent to the model
    search_query, search_env, search_done, search_out,  \* one call of execute_web_search
    main_pc,        \* position of main
    query_index,    \* how many queries of adk_queries the for loop has taken
    driver_log      \* what main did, in order: runs started and ended, flushes

agent_vars ==
    <<pc, response, iteration, tool_calls, function_call, tool_result, final_answer,
      caught, escaped, events, asked, sent>>

search_vars == <<search_query, search_env, search_done, search_out>>

driver_vars == <<main_pc, query_index, driver_log>>

vars == <<agent_vars, search_vars, driver_vars>>

\* the request a reply carries in its first part, as the stub made it
Request(r) ==
    IF Len(r) > 0 /\ Len(r[1]) > 0 /\ r[1][1].kind = "function_call"
    THEN [function |-> r[1][1].name, arguments |-> r[1][1].args]
    ELSE NoRequest

\* the call of run_adk_agent: the locals not bound yet hold Unbound or the value
\* of their first assignment
AgentInit ==
    /\ pc = "begin"
    /\ response = << >>
    /\ iteration = 0
    /\ tool_calls = << >>
    /\ function_call = NoRequest
    /\ tool_result = Unbound
    /\ final_answer = Unbound
    /\ caught = "none"
    /\ escaped = "none"
    /\ events = << >>
    /\ asked = << >>
    /\ sent = [name |-> "", result |-> Unbound]

SearchIdle ==
    /\ search_query = Empty
    /\ search_env = [trace_ok |-> TRUE, get |-> GetJson(NoData), fallback |-> TextIs(Empty),
                     observe_ok |-> TRUE, error_ok |-> TRUE]
    /\ search_done = FALSE
    /\ search_out = Propagated(FALSE, FALSE)

\* main is not running
DriverIdle ==
    /\ main_pc = "idle"
    /\ query_index = 0
    /\ driver_log = << >>

Init == AgentInit /\ SearchIdle /\ DriverIdle

\* lines 124-139: the trace update and the model construction
Begin ==
    /\ pc = "begin"
    /\ \E log_ok \in BOOLEAN :
         IF log_ok THEN pc' = "send" /\ UNCHANGED escaped
         ELSE pc' = "raised" /\ escaped' = "trace"
    /\ UNCHANGED <<response, iteration, tool_calls, function_call, tool_result,
                   final_answer, caught, events, asked, sent, search_vars, driver_vars>>

\* lines 142-148: the first send, outside any try block, with the outcomes the
\* model service may give
SendFirstWith(outcomes) ==
    /\ pc = "send"
    /\ \E o \in outcomes :
         IF o.kind = "raise"
         THEN /\ pc' = "raised"
              /\ escaped' = "send"
              /\ events' = Append(events, "model_raised")
              /\ UNCHANGED <<response, asked>>
         ELSE /\ pc' = "loop"
              /\ response' = o.reply
              /\ events' = Append(events, "model")
              /\ asked' = Append(asked, Request(o.reply))
              /\ UNCHANGED escaped
    /\ iteration' = 0
    /\ tool_calls' = << >>
    /\ UNCHANGED <<function_call, tool_result, final_answer, caught, sent, search_vars, driver_vars>>

SendFirst == SendFirstWith(SendOutcomes)

\* line 150: the loop test
LoopTest ==
    /\ pc = "loop"
    /\ pc' = IF LoopCond(iteration) THEN "inspect" ELSE "extract"
    /\ UNCHANGED <<response, iteration, tool_calls, function_call, tool_result,
                   final_answer, caught, escaped, events, asked, sent, search_vars, driver_vars>>

\* lines 151-179 and 202-207: look at the first part of the first candidate,
\* convert the arguments (dict(function_call.args), called for non-empty
\* arguments only, returns or raises) and record the call
Inspect ==
    /\ pc = "inspect"
    /\ IF ~RequestsTool(response)
       THEN pc' = "extract" /\ UNCHANGED <<tool_calls, function_call, caught>>
       ELSE LET part == response[1][1] IN
            \E convert_ok \in (IF part.args # {} THEN BOOLEAN ELSE {TRUE}) :
              IF ~convert_ok
              THEN pc' = HandlerExit /\ caught' = "convert"
                   /\ UNCHANGED <<tool_calls, function_call>>
              ELSE /\ pc' = "dispatch"
                   /\ function_call' = ToolCallEntry(part.name, part.args)
                   /\ tool_calls' = Append(tool_calls, ToolCallEntry(part.name, part.args))
                   /\ UNCHANGED caught
    /\ UNCHANGED <<response, iteration, tool_result, final_answer, escaped, events,
                   asked, sent, search_vars, driver_vars>>

\* lines 182-186 and 202-207: run the tool
Dispatch ==
    /\ pc = "dispatch"
    /\ IF IsRegistered(function_call.function)
       THEN \E env \in AgentEnvs :
              LET out == ExecuteWebSearch(GetQuery(function_call.arguments), env) IN
              IF out.raised
              THEN /\ pc' = HandlerExit
                   /\ caught' = "tool"
                   /\ events' = Append(events, "web_search_raised")
                   /\ UNCHANGED tool_result
              ELSE /\ pc' = "resubmit"
                   /\ tool_result' = out.value
                   /\ events' = Append(events, "web_search")
                   /\ UNCHANGED caught
       ELSE /\ pc' = "resubmit"
            /\ tool_result' = UnknownTool
            /\ events' = Append(events, "unknown_tool")
            /\ UNCHANGED caught
    /\ UNCHANGED <<response, iteration, tool_calls, function_call, final_answer,
                   escaped, asked, sent, search_vars, driver_vars>>

\* lines 188-207: send the function response and count the iteration
ResubmitWith(outcomes) ==
    /\ pc = "resubmit"
    /\ sent' = [name |-> function_call.function, result |-> tool_result]
    /\ \E o \in outcomes :
         IF o.kind = "raise"
         THEN /\ pc' = HandlerExit
              /\ caught' = "resubmit"
              /\ events' = Append(events, "model_raised")
              /\ UNCHANGED <<response, iteration, asked>>
         ELSE /\ pc' = "loop"
              /\ response' = o.reply
              /\ iteration' = NextIteration(iteration)
              /\ events' = Append(events, "model")
              /\ asked' = Append(asked, Request(o.reply))
              /\ UNCHANGED caught
    /\ UNCHANGED <<tool_calls, function_call, tool_result, final_answer, escaped, search_vars, driver_vars>>

Resubmit == ResubmitWith(SendOutcomes)

\* lines 209-219: the final answer
Extract ==
    /\ pc = "extract"
    /\ \E o \in TextOutcomes(response) :
         final_answer' = IF o.kind = "text" THEN o.text ELSE FallbackAnswer(response)
    /\ pc' = "finish"
    /\ UNCHANGED <<response, iteration, tool_calls, function_call, tool_result,
                   caught, escaped, events, asked, sent, search_vars, driver_vars>>

\* lines 221-236: the trace update and the return
Finish ==
    /\ pc = "finish"
    /\ \E log_ok \in BOOLEAN :
         IF log_ok THEN pc' = "returned" /\ UNCHANGED escaped
         ELSE pc' = "raised" /\ escaped' = "final_trace"
    /\ UNCHANGED <<response, iteration, tool_calls, function_call, tool_result,
                   final_answer, caught, events, asked, sent, search_vars, driver_vars>>

Next == Begin \/ SendFirst \/ LoopTest \/ Inspect \/ Dispatch \/ Resubmit \/ Extract \/ Finish

Spec == Init /\ [][Next]_vars

\* ---------------------------------------------------------------- one call of the tool executor
SearchInit ==
    /\ AgentInit
    /\ search_query \in Queries
    /\ search_env \in SearchEnvs
    /\ search_done = FALSE
    /\ search_out = Propagated(FALSE, FALSE)
    /\ DriverIdle

\* lines 45-112: one call of execute_web_search
SearchCall ==
    /\ ~search_done
    /\ search_done' = TRUE
    /\ search_out' = ExecuteWebSearch(search_query, search_env)
    /\ UNCHANGED <<search_query, search_env, agent_vars, driver_vars>>

SearchSpec == SearchInit /\ [][SearchCall]_vars

\* ---------------------------------------------------------------- the batch driver
\* lines 251-254
adk_queries == <<"What is 10 + 25?", "Name 3 popular car brands">>

\* the replies drawn for the runs of the batch
DriverReplies ==
    { << >>, << <<TextPart(<<"A">>)>> >>, << <<CallPart("web_search", QueryArgs)>> >>,
      << <<CallPart("fly_to_moon", {})>> >> }

DriverSendOutcomes == {SendRaises} \cup { SendReturns(r) : r \in DriverReplies }

\* lines 243-254: main has printed its banner and built the list; no run yet
MainInit ==
    /\ pc = "idle"
    /\ response = << >>
    /\ iteration = 0
    /\ tool_calls = << >>
    /\ function_call = NoRequest
    /\ tool_result = Unbound
    /\ final_answer = Unbound
    /\ caught = "none"
    /\ escaped = "none"
    /\ events = << >>
    /\ asked = << >>
    /\ sent = [name |-> "", result |-> Unbound]
    /\ SearchIdle
    /\ main_pc = "for"
    /\ query_index = 0
    /\ driver_log = << >>

LogEntry(what, query) == [what |-> what, query |-> query]

\* lines 256-258: the for loop takes the next query and calls run_adk_agent
StartQuery ==
    /\ main_pc = "for"
    /\ query_index < Len(adk_queries)
    /\ query_index' = query_index + 1
    /\ main_pc' = "running"
    /\ driver_log' = Append(driver_log, LogEntry("start", adk_queries[query_index + 1]))
    /\ pc' = "begin"
    /\ response' = << >>
    /\ iteration' = 0
    /\ tool_calls' = << >>
    /\ function_call' = NoRequest
    /\ tool_result' = Unbound
    /\ final_answer' = Unbound
    /\ caught' = "none"
    /\ escaped' = "none"
    /\ events' = << >>
    /\ asked' = << >>
    /\ sent' = [name |-> "", result |-> Unbound]
    /\ UNCHANGED search_vars

AfterQueryFailurePropagates == "raised"

\* lines 259-260: where main goes on after the except clause
AfterQueryFailure == "for"

\* lines 258-261: the run came back, by return or into the except clause
EndQuery ==
    /\ main_pc = "running"
    /\ pc \in {"returned", "raised"}
    /\ driver_log' = Append(driver_log,
                            LogEntry(IF pc = "returned" THEN "returned" ELSE "failed",
                                     adk_queries[query_index]))
    /\ main_pc' = IF pc = "returned" THEN "for" ELSE AfterQueryFailure
    /\ UNCHANGED <<query_index, agent_vars, search_vars>>

\* lines 263-269: the closing lines and langfuse.flush(), which returns or raises
Flush ==
    /\ main_pc = "for"
    /\ query_index = Len(adk_queries)
    /\ driver_log' = Append(driver_log, LogEntry("flush", ""))
    /\ \E flush_ok \in BOOLEAN : main_pc' = IF flush_ok THEN "done" ELSE "raised"
    /\ UNCHANGED <<query_index, agent_vars, search_vars>>

DriverSendFirst == SendFirstWith(DriverSendOutcomes)

DriverResubmit == ResubmitWith(DriverSendOutcomes)

MainNext ==
    \/ StartQuery \/ EndQuery \/ Flush
    \/ Begin \/ DriverSendFirst \/ LoopTest \/ Inspect \/ Dispatch \/ DriverResubmit
    \/ Extract \/ Finish

MainSpec == MainInit /\ [][MainNext]_vars

\* ---------------------------------------------------------------- properties
RECURSIVE Count(_, _)
\* the number of entries of seq that are in set
Count(seq, set) ==
    IF Len(seq) = 0 THEN 0
    ELSE (IF Head(seq) \in set THEN 1 ELSE 0) + Count(Tail(seq), set)

RoundTrips == Count(events, {"model"})
ModelCalls == Count(events, {"model", "model_raised"})
Resubmissions == IF ModelCalls = 0 THEN 0 ELSE ModelCalls - 1
Dispatches == Count(events, {"web_search", "web_search_raised", "unknown_tool"})
SearchRuns == Count(events, {"web_search", "web_search_raised"})

\* every reply received so far asked for a tool in its first part
AlwaysAskedTool == Len(asked) > 0 /\ \A i \in 1..Len(asked) : asked[i] # NoRequest

\* the reply is one candidate holding one text part
PlainText(r) == Len(r) = 1 /\ Len(r[1]) = 1 /\ r[1][1].kind = "text"

\* C1: in every reachable state of a run, 0 <= iteration_count <= max_iterations
C1_IterationBounded == iteration \in 0..max_iterations

C1_Witness == pc = "returned" /\ iteration = max_iterations

\* C2 as stated: in every reachable state the length of tool_calls is at most
\* iteration_count
C2_Original == Len(tool_calls) <= iteration

\* C2 amended: in every reachable state, also after a dispatch or a resubmission
\* raised, the length of tool_calls is at most iteration_count + 1
C2_Amended == Len(tool_calls) <= iteration + 1

C2_Witness == pc = "returned" /\ caught = "resubmit" /\ Len(tool_calls) = iteration + 1

\* C3: when the run returns, final_answer is set and is a non-empty string
C3_FinalAnswerNonEmpty ==
    pc = "returned" => final_answer # Unbound /\ final_answer # Empty

\* C4: no failure of the first send, of the parsing of a reply, of a tool, of a
\* resubmission or of the final-answer extraction leaves the run as an
\* exception; the run gets to its final answer
C4_NeverAborts ==
    /\ escaped \in {"none", "trace", "final_trace"}
    /\ pc \in {"finish", "returned"} => final_answer # Unbound

\* C5: with a model service that answers every send with a tool request, a run
\* that returns has iteration_count = 5, exactly 5 recorded and 5 dispatched tool
\* calls, and as final answer the first non-empty text of the last reply or the
\* placeholder
C5_StopsAtBudget ==
    (pc = "returned" /\ AlwaysAskedTool /\ caught \notin {"convert", "resubmit"})
    => /\ iteration = 5
       /\ Len(tool_calls) = 5
       /\ Dispatches = 5
       /\ final_answer = FallbackAnswer(response)

\* C6: for k < 5, when the first k replies ask for a tool, the next is the plain
\* text T and nothing failed, the run returns after k + 1 round-trips with
\* iteration_count = k, tool_calls the k requests in order and final_answer = T
C6_PlainTextAfterK ==
    (/\ pc = "returned"
     /\ caught = "none"
     /\ Len(asked) \in 1..5
     /\ PlainText(response)
     /\ \A i \in 1..(Len(asked) - 1) : asked[i] # NoRequest)
    => /\ iteration = Len(asked) - 1
       /\ tool_calls = SubSeq(asked, 1, Len(asked) - 1)
       /\ final_answer = response[1][1].text
       /\ RoundTrips = Len(asked)
       /\ ModelCalls = Len(asked)

C6_Witness ==
    /\ pc = "returned" /\ caught = "none" /\ Len(asked) = 5 /\ PlainText(response)
    /\ \A i \in 1..4 : asked[i] # NoRequest
    /\ final_answer = <<"A">>

\* what C7 says of every state: the result of a call of a name other than
\* "web_search" is "Unknown tool", it goes back under the requested name, the
\* tool implementation runs for the web_search calls only, and the handler never
\* catches anything from such a dispatch
C7_UnknownToolState ==
    /\ (pc = "resubmit" /\ function_call.function # "web_search")
       => tool_result = <<"Unknown tool">> /\ events[Len(events)] = "unknown_tool"
    /\ Resubmissions >= 1
       => /\ sent.name = tool_calls[Resubmissions].function
          /\ sent.name # "web_search" => sent.result = <<"Unknown tool">>
    /\ SearchRuns = Count(SubSeq(tool_calls, 1, Dispatches),
                          { e \in {tool_calls[i] : i \in 1..Len(tool_calls)} :
                              e.function = "web_search" })
    /\ caught = "tool" => tool_calls[Len(tool_calls)].function = "web_search"

UnknownToolInHand == pc = "dispatch" /\ function_call.function # "web_search"

UnknownToolDispatched == Count(events, {"unknown_tool"}) > 0

Ended == pc \in {"returned", "raised"}

\* the steps a run can still take: the position within the iteration, and 7 for
\* every iteration left
StepsLeft ==
    CASE pc = "begin" -> 7 * max_iterations + 9
      [] pc = "send" -> 7 * max_iterations + 8
      [] pc = "loop" -> 7 * (max_iterations - iteration) + 7
      [] pc = "inspect" -> 7 * (max_iterations - iteration) + 6
      [] pc = "dispatch" -> 7 * (max_iterations - iteration) + 5
      [] pc = "resubmit" -> 7 * (max_iterations - iteration) + 4
      [] pc = "extract" -> 2
      [] pc = "finish" -> 1
      [] OTHER -> 0

\* C7: a request for a tool that is not "web_search" invokes no tool
\* implementation, sends "Unknown tool" back under the requested name and raises
\* nothing; the loop goes on to the resubmission, and from there the run is never
\* stuck, every step brings it nearer to its end, and it ends with a final answer
C7_UnknownTool ==
    /\ []C7_UnknownToolState
    /\ [][UnknownToolInHand => pc' = "resubmit"]_vars
    /\ [](UnknownToolDispatched /\ ~Ended => ENABLED Next)
    /\ [][UnknownToolDispatched => StepsLeft' < StepsLeft]_vars
    /\ [](UnknownToolDispatched /\ Ended => final_answer # Unbound)

C7_Witness ==
    /\ pc = "returned" /\ sent.name = "fly_to_moon" /\ sent.result = <<"Unknown tool">>
    /\ iteration = max_iterations

\* ---------------------------------------------------------------- properties of one tool call
\* C8: when the search backend raises, execute_web_search returns a string that
\* begins with "Search failed:" and raises nothing
C8_SearchFailureReturned ==
    (search_done /\ search_out.searched /\ search_env.get.kind = "raise")
    => ~search_out.raised /\ IsPrefix(<<"Search failed: ">>, search_out.value)

\* a JSON object without summary, answer and related topic carrying text
NothingUsable(get) ==
    /\ get.kind = "json" /\ get.is_object
    /\ get.data.AbstractText = Empty /\ get.data.Answer = Empty
    /\ \A i \in 1..Len(get.data.RelatedTopics) : ~get.data.RelatedTopics[i].has_text

\* C9: on a JSON object with nothing usable (and a working logging
\* collaborator) execute_web_search calls the model fallback, returns its text
\* when it gives one, and never returns an empty string
C9_FallbackNeverEmpty ==
    (search_done /\ search_env = AllLogged(search_env) /\ NothingUsable(search_env.get))
    => /\ search_out.fallback
       /\ ~search_out.raised
       /\ search_env.fallback.kind = "text" => search_out.value = search_env.fallback.text
       /\ search_out.value # Empty

\* C10: a failing logging call changes nothing: execute_web_search raises
\* nothing and returns what it returns when every logging call succeeds
C10_LoggingNeverMatters ==
    search_done
    => /\ ~search_out.raised
       /\ search_out = ExecuteWebSearch(search_query, AllLogged(search_env))

\* ---------------------------------------------------------------- properties of the batch
MainEnded == main_pc \in {"done", "raised"}

\* the i-th thing main does when every query is attempted in list order, each
\* run ending before the next starts, with one flush after the last
ExpectedEntry(i, e) ==
    IF i > 2 * Len(adk_queries) THEN e = [what |-> "flush", query |-> ""]
    ELSE IF i % 2 = 1
         THEN e = [what |-> "start", query |-> adk_queries[(i + 1) \div 2]]
         ELSE e.what \in {"returned", "failed"} /\ e.query = adk_queries[i \div 2]

\* C11: a failure leaving a query's run does not abort the batch: every query is
\* attempted, in list order, each run ending before the next starts, and the
\* flush is called exactly once, after the last query, whichever queries failed
C11_BatchNeverAborts ==
    /\ Len(driver_log) <= 2 * Len(adk_queries) + 1
    /\ \A i \in 1..Len(driver_log) : ExpectedEntry(i, driver_log[i])
    /\ MainEnded => Len(driver_log) = 2 * Len(adk_queries) + 1
    /\ ~MainEnded => ENABLED MainNext
    /\ (main_pc = "running" /\ pc \notin {"returned", "raised"}) => driver_log[Len(driver_log)].what = "start"

C11_Witness ==
    /\ main_pc = "done"
    /\ driver_log[2].what = "failed" /\ driver_log[4].what = "returned"
    /\ driver_log[5].what = "flush"

\* ---------------------------------------------------------------- properties of the order of calls
IsModelCall(e) == e \in {"model", "model_raised"}

IsToolDispatch(e) == e \in {"web_search", "web_search_raised", "unknown_tool"}

\* the calls of a run alternate: a model call first, a dispatch only right after
\* a reply that asked for a tool, a model call right after every dispatch that
\* came back, and nothing else
CallsAlternate ==
    /\ Len(events) > 0 => IsModelCall(events[1])
    /\ \A i \in 1..Len(events) :
         /\ IsToolDispatch(events[i])
            => /\ i > 1 /\ events[i - 1] = "model"
               /\ asked[Count(SubSeq(events, 1, i - 1), {"model"})] # NoRequest
         /\ (IsModelCall(events[i]) /\ i > 1)
            => events[i - 1] \in {"web_search", "unknown_tool"}
    /\ (Len(events) > 0 /\ events[Len(events)] \in {"web_search", "unknown_tool"})
       => pc = "resubmit"

\* C12: within a run the model round-trips and the tool dispatches strictly
\* alternate, starting with a model round-trip, and the last external call of a
\* run that returns is a model round-trip
C12_StrictAlternation ==
    /\ CallsAlternate
    /\ pc = "returned" => IsModelCall(events[Len(events)])

\* what holds of the order of calls in every run: the alternation, and a model
\* call as the last call of a run that returns unless a dispatch raised
AlternationUnlessDispatchRaised ==
    /\ CallsAlternate
    /\ (pc = "returned" /\ caught # "tool") => IsModelCall(events[Len(events)])

InLoop == pc \in {"loop", "inspect", "dispatch", "resubmit"}

\* C13: an exception raised inside the loop (converting the arguments, running
\* the tool, resubmitting the result) is caught, never leaves the run, and ends
\* the loop: the next step is the final-answer extraction, and no dispatch and
\* no model call follows
C13_CaughtEndsLoop ==
    /\ [](caught # "none" => ~InLoop)
    /\ [][InLoop => (escaped' = escaped /\ pc' # "raised")]_vars
    /\ [][caught' # caught => (caught = "none" /\ pc' = "extract")]_vars
    /\ [][(pc \in {"dispatch", "resubmit"} /\ events' # events
            /\ events'[Len(events')] \in {"model_raised", "web_search_raised"})
           => caught' # "none"]_vars
    /\ [][caught # "none"
           => (events' = events /\ tool_calls' = tool_calls /\ iteration' = iteration
               /\ response' = response)]_vars

C13_Witness ==
    /\ pc = "returned" /\ caught = "resubmit" /\ iteration = 2
    /\ events[Len(events)] = "model_raised"

\* C14: only the first part of the first candidate decides: a reply whose first
\* part is not a tool request ends the loop with nothing recorded, whatever its
\* other parts and candidates hold, and every recorded and dispatched call is
\* the first-part request of its reply
C14_FirstPartDecides ==
    /\ [](/\ Len(tool_calls) <= Len(asked)
          /\ \A i \in 1..Len(tool_calls) : tool_calls[i] = asked[i]
          /\ Dispatches <= Len(tool_calls))
    /\ [][pc = "inspect"
          => IF Request(response) = NoRequest
             THEN pc' = "extract" /\ tool_calls' = tool_calls /\ events' = events
                  /\ caught' = caught
             ELSE pc' = "dispatch" => tool_calls' = Append(tool_calls, Request(response))]_vars

C14_Witness ==
    /\ pc = "returned" /\ tool_calls = << >> /\ Dispatches = 0
    /\ Len(response) = 2 /\ response[2][1].kind = "function_call"
    /\ Len(response[1]) = 2
    /\ response[1][1].kind = "text" /\ response[1][2].kind = "function_call"

\* candidates missing or empty, or the parts of the first candidate missing or empty
Malformed(r) == Len(r) = 0 \/ Len(r[1]) = 0

\* C15: a malformed reply counts as a reply without function call: nothing is
\* recorded, dispatched or caught for it, the loop ends, and the final answer is
\* the placeholder
C15_MalformedReply ==
    /\ [][(pc = "inspect" /\ Malformed(response))
          => (pc' = "extract" /\ tool_calls' = tool_calls /\ events' = events
              /\ caught' = caught)]_vars
    /\ []((pc \in {"finish", "returned"} /\ Malformed(response))
          => final_answer = <<"Agent completed processing">>)

C15_Witness ==
    /\ pc = "returned" /\ iteration = 1 /\ Len(response) = 1 /\ Len(response[1]) = 0
    /\ final_answer = <<"Agent completed processing">>

\* the text of the first part that has a non-empty text, else the placeholder
FirstTextOf(parts) ==
    LET withText == { i \in 1..Len(parts) : parts[i].kind = "text" /\ parts[i].text # << >> }
    IN  IF withText = {} THEN <<"Agent completed processing">>
        ELSE parts[CHOOSE i \in withText : \A j \in withText : i <= j].text

\* C16: when iteration_count is at the maximum and the last reply still asks for
\* a tool, the loop ends without recording or dispatching that request, and the
\* final answer is the first non-empty text among the parts of that reply, or
\* the placeholder
C16_BudgetWithPendingRequest ==
    /\ [][(pc = "loop" /\ iteration = 5)
          => (pc' = "extract" /\ tool_calls' = tool_calls /\ events' = events)]_vars
    /\ []((pc \in {"finish", "returned"} /\ iteration = 5 /\ Request(response) # NoRequest)
          => /\ Len(tool_calls) = 5
             /\ Dispatches = 5
             /\ final_answer = FirstTextOf(response[1]))

C16_Witness ==
    /\ pc = "returned" /\ iteration = 5 /\ Request(response) # NoRequest
    /\ Len(response[1]) = 2 /\ final_answer = <<"A">>

\* C17: every run ends, by a return or by an exception handed to the caller,
\* whatever the model asks for: no state short of the end is stuck, every step
\* lowers the bounded count of the steps left, and the loop counter stays bounded
C17_RunTerminates ==
    /\ [](~Ended => ENABLED Next)
    /\ [][StepsLeft' < StepsLeft]_vars
    /\ [](StepsLeft <= 7 * 5 + 9 /\ iteration <= 5)
    /\ [](Ended => (pc = "returned" \/ escaped # "none"))

\* the run is one thread: a step that can be taken is taken
FairSpec == Spec /\ WF_vars(Next)

\* under FairSpec, termination as a temporal formula
RunEventuallyEnds == <>Ended

C17_Witness ==
    /\ pc = "raised" /\ escaped = "final_trace" /\ iteration = 5 /\ AlwaysAskedTool

C19_CountersGrowTogether ==
    /\ [](iteration <= Len(tool_calls) /\ Len(tool_calls) <= iteration + 1)
    /\ [][\/ tool_calls' = tool_calls
          \/ /\ Len(tool_calls') = Len(tool_calls) + 1
             /\ SubSeq(tool_calls', 1, Len(tool_calls)) = tool_calls
             /\ iteration' = iteration]_vars
    /\ [][\/ iteration' = iteration
          \/ /\ iteration' = iteration + 1
             /\ Len(tool_calls) = iteration + 1
             /\ pc = "resubmit"
             /\ events' = Append(events, "model")]_vars
    /\ [](pc = "returned"
          => (Len(tool_calls) = iteration <=> caught \notin {"tool", "resubmit"}))

C19_Witness ==
    /\ pc = "returned" /\ caught = "tool" /\ iteration = 3 /\ Len(tool_calls) = 4
====
